---- MODULE Spec2Model ----
(***************************************************************************)
(* The document structure and navigation engine of the VDATA editor       *)
(* (src/static/js/viz.js, the part headed static/js/vdata_editor.js):     *)
(* outline builder, folding range provider, active-item tracker, schema   *)
(* name resolver and the debounced outline update.                        *)
(*                                                                         *)
(* Text is modelled as a sequence of one-character strings; a document is *)
(* the editor model's sequence of lines.  JavaScript null and "" are both *)
(* the empty sequence (the code only ever tests them for truthiness), and *)
(* a failed regular-expression match is the empty sequence as well: every *)
(* capture group of the three patterns needs at least one character.      *)
(* Indices into lastOutline are written 0-based as in the code.           *)
(***************************************************************************)
EXTENDS Integers, Sequences, FiniteSets, TLC

VARIABLES
    doc,                \* the editor model: the document's lines
    cursorLine,         \* the editor's cursor line, 1-based
    lastOutline,        \* viz.js:90
    outlineList,        \* the rendered <li> of #outline-list
    jumpList,           \* the rendered <li> of #jump-list
    outlineUpdateTimer, \* viz.js:91, 0 is null
    timers,             \* the browser's pending timeouts
    currentSchemaName,  \* viz.js:89
    docsIframeSrc,      \* the documentation surface's address
    storage,            \* localStorage[LAST_SCHEMA_KEY]
    foldRanges,         \* what provideFoldingRanges last returned
    isDirty,            \* viz.js:87
    windowRequire,      \* whether window.require, Monaco's loader, is there
    editor,             \* viz.js:85, FALSE is null
    consoleErrors,      \* the diagnostics logged with console.error
    uncaught,           \* observation: an exception has left a handler
    storageDenied,      \* localStorage's getItem and setItem throw
    currentFileName,    \* viz.js:86
    reads,              \* the FileReader reads in flight
    lastOp,             \* observation: the handler that ran last
    fx,                 \* observation: the side effects of that handler
    sinceEdit,          \* history: time since the last schedule request
    edits,              \* history: number of schedule requests
    burstsLo,           \* history: bursts, a gap of exactly Delay joins
    burstsHi,           \* history: bursts, a gap of exactly Delay splits
    rebuilds,           \* history: number of rebuilds fired
    firedGap            \* history: sinceEdit at the last rebuild, -1 if none

vars == <<doc, cursorLine, lastOutline, outlineList, jumpList,
          outlineUpdateTimer, timers, currentSchemaName, docsIframeSrc,
          storage, foldRanges, isDirty, windowRequire, editor,
          consoleErrors, uncaught, storageDenied, currentFileName, reads,
          lastOp, fx,
          sinceEdit, edits, burstsLo, burstsHi, rebuilds, firedGap>>

progVars == <<doc, cursorLine, lastOutline, outlineList, jumpList,
              outlineUpdateTimer, timers, currentSchemaName, docsIframeSrc,
              storage, foldRanges, isDirty, lastOp, fx>>

histVars == <<sinceEdit, edits, burstsLo, burstsHi, rebuilds, firedGap>>

\* the host and the environment, which the editing handlers leave alone
hostVars == <<windowRequire, editor, consoleErrors, storageDenied>>

fileVars == <<currentFileName, reads>>

----------------------------------------------------------------------------
(* Bounds of the model.                                                    *)

MaxLines == 3        \* lines of a scanned document
MaxSchemaLines == 2  \* lines of a document of the schema resolver's inputs
MaxEdits == 3        \* schedule requests of a timed run
DateNow == 9         \* Date.now() of the session, in hours
MaxReads == 1        \* file reads in flight at a time

(* Program constants.  Time is counted in units of 100ms.                  *)

Delay == 3           \* setTimeout(buildOutline, 300)
SETTINGS_TTL_MS == 6 \* 6 hours, in hours

----------------------------------------------------------------------------
(* Characters and strings.                                                 *)

Quote == "\""

OpenBrackets == {"{", "[", "(", "<"}

CloseBrackets == {"}", "]", ")", ">"}

\* \s, of the characters that occur within a line
Whitespace == {" ", "\t"}

Letters ==
    {"a", "b", "c", "d", "e", "f", "g", "h", "i", "j", "k", "l", "m",
     "n", "o", "p", "q", "r", "s", "t", "u", "v", "w", "x", "y", "z",
     "A", "B", "C", "D", "E", "F", "G", "H", "I", "J", "K", "L", "M",
     "N", "O", "P", "Q", "R", "S", "T", "U", "V", "W", "X", "Y", "Z"}

Digits == {"0", "1", "2", "3", "4", "5", "6", "7", "8", "9"}

\* [A-Za-z_]
IdentStart == Letters \cup {"_"}

\* [\w\.]
IdentChars == Letters \cup Digits \cup {"_", "."}

\* the index of the first character at or after i that is not in S,
\* Len(s)+1 if there is none
SpanIn(s, i, S) ==
    CHOOSE j \in i..(Len(s) + 1) :
        /\ j = Len(s) + 1 \/ s[j] \notin S
        /\ \A k \in i..(j - 1) : s[k] \in S

\* the index of the first character at or after i that is c, Len(s)+1 if none
SpanTo(s, i, c) ==
    CHOOSE j \in i..(Len(s) + 1) :
        /\ j = Len(s) + 1 \/ s[j] = c
        /\ \A k \in i..(j - 1) : s[k] # c

\* the least element of a non-empty set of integers
Least(S) == CHOOSE i \in S : \A j \in S : i <= j

\* whether pat occurs in s at index i
OccursAt(s, i, pat) ==
    /\ i >= 1
    /\ i + Len(pat) - 1 <= Len(s)
    /\ \A k \in 1..Len(pat) : s[i + k - 1] = pat[k]

StartsWith(s, pat) == OccursAt(s, 1, pat)

EndsWith(s, pat) == OccursAt(s, Len(s) - Len(pat) + 1, pat)

Includes(s, pat) == \E i \in 1..Len(s) : OccursAt(s, i, pat)

\* model.getValue(): the lines joined by the end-of-line sequence
RECURSIVE JoinLines(_, _)
JoinLines(lines, i) ==
    IF i > Len(lines) THEN <<>>
    ELSE IF i = Len(lines) THEN lines[i]
    ELSE lines[i] \o <<"\n">> \o JoinLines(lines, i + 1)

GetValue(lines) == JoinLines(lines, 1)

\* text.split(/\r?\n/): the pieces between the separators, a separator being
\* a "\n" together with the "\r" right before it, if any
SplitLines(text) ==
    LET nl == {i \in 1..Len(text) : text[i] = "\n"}
        n == Cardinality(nl)
        Nth(k) == CHOOSE i \in nl : Cardinality({j \in nl : j < i}) = k - 1
        First(k) == IF k = 1 THEN 1 ELSE Nth(k - 1) + 1
        Last(k) ==
            IF k = n + 1 THEN Len(text)
            ELSE IF Nth(k) - 1 >= First(k) /\ text[Nth(k) - 1] = "\r"
                 THEN Nth(k) - 2
                 ELSE Nth(k) - 1
    IN  [k \in 1..(n + 1) |-> SubSeq(text, First(k), Last(k))]

----------------------------------------------------------------------------
(* The three patterns.                                                     *)

ClassKey == <<"_", "c", "l", "a", "s", "s">>

\* line.match(/^\s*([A-Za-z_][\w\.]*)\s*=/): capture 1, <<>> if no match
KeyMatch(line) ==
    LET s == SpanIn(line, 1, Whitespace) IN
    IF s > Len(line) \/ line[s] \notin IdentStart THEN <<>>
    ELSE LET e == SpanIn(line, s + 1, IdentChars)
             q == SpanIn(line, e, Whitespace)
         IN  IF q <= Len(line) /\ line[q] = "=" THEN SubSeq(line, s, e - 1)
             ELSE <<>>

\* /_class\s*=\s*"([^"]+)"/ tried at index i: capture 1, <<>> if it fails
ClassMatchAt(line, i) ==
    IF ~OccursAt(line, i, ClassKey) THEN <<>>
    ELSE LET j == SpanIn(line, i + Len(ClassKey), Whitespace) IN
         IF j > Len(line) \/ line[j] # "=" THEN <<>>
         ELSE LET k == SpanIn(line, j + 1, Whitespace) IN
              IF k > Len(line) \/ line[k] # Quote THEN <<>>
              ELSE LET m == SpanTo(line, k + 1, Quote) IN
                   IF m > k + 1 /\ m <= Len(line)
                   THEN SubSeq(line, k + 1, m - 1)
                   ELSE <<>>

\* the whole quoted value, its quotes included
ClassMatchQuoted(line) ==
    LET hits == {i \in 1..Len(line) : ClassMatchAt(line, i) # <<>>} IN
    IF hits = {} THEN <<>>
    ELSE <<Quote>> \o ClassMatchAt(line, Least(hits)) \o <<Quote>>

\* line.match(/_class\s*=\s*"([^"]+)"/): capture 1 of the leftmost match,
\* <<>> if no match
ClassMatch(line) ==
    LET hits == {i \in 1..Len(line) : ClassMatchAt(line, i) # <<>>} IN
    IF hits = {} THEN <<>> ELSE ClassMatchAt(line, Least(hits))

\* /"([^"]+)"/ tried at index i
GenericMatchAt(line, i) ==
    IF i > Len(line) \/ line[i] # Quote THEN <<>>
    ELSE LET m == SpanTo(line, i + 1, Quote) IN
         IF m > i + 1 /\ m <= Len(line) THEN SubSeq(line, i + 1, m - 1)
         ELSE <<>>

\* lineText.match(/"([^"]+)"/): capture 1 of the leftmost match, <<>> if no
\* match
GenericMatch(line) ==
    LET hits == {i \in 1..Len(line) : GenericMatchAt(line, i) # <<>>} IN
    IF hits = {} THEN <<>> ELSE GenericMatchAt(line, Least(hits))

----------------------------------------------------------------------------
(* buildOutline: the scan of the document.                                 *)

Min(a, b) == IF a < b THEN a ELSE b

Max(a, b) == IF a > b THEN a ELSE b

\* the decrement without its floor
BraceStepUnfloored(braceLevel, ch) ==
    IF ch \in OpenBrackets THEN braceLevel + 1
    ELSE IF ch \in CloseBrackets THEN braceLevel - 1
    ELSE braceLevel

\* one character's effect on braceLevel
BraceStep(braceLevel, ch) ==
    IF ch \in OpenBrackets THEN braceLevel + 1
    ELSE IF ch \in CloseBrackets THEN Max(0, braceLevel - 1)
    ELSE braceLevel

\* the inner loop over the characters lo..hi of a line, left to right.  The
\* range is halved so that the evaluation stays shallow, and the level after
\* the left half is bound to a name (left \in {...}) so that it is computed
\* once.
RECURSIVE AdjustBraceLevel(_, _, _, _)
AdjustBraceLevel(line, lo, hi, braceLevel) ==
    IF lo > hi THEN braceLevel
    ELSE IF lo = hi THEN BraceStep(braceLevel, line[lo])
    ELSE LET mid == (lo + hi) \div 2 IN
         CHOOSE r \in {AdjustBraceLevel(line, mid + 1, hi, left) :
                          left \in {AdjustBraceLevel(line, lo, mid, braceLevel)}} :
             TRUE

\* the depth without its cap
KeyDepthUncapped(braceLevel) == braceLevel

\* Math.min(braceLevel, 2)
KeyDepth(braceLevel) == Min(braceLevel, 2)

ClassLabelPrefix == <<"_", "c", "l", "a", "s", "s", " ", "=", " ">>

\* the two tests without the else between them
LineItemsBoth(line, lineNumber, braceLevel) ==
    LET keyMatch == KeyMatch(line)
        classMatch == ClassMatch(line)
    IN  (IF classMatch # <<>>
         THEN << [label |-> ClassLabelPrefix \o classMatch,
                  shortLabel |-> classMatch,
                  line |-> lineNumber,
                  depth |-> 0] >>
         ELSE <<>>)
        \o
        (IF keyMatch # <<>>
         THEN << [label |-> keyMatch,
                  shortLabel |-> keyMatch,
                  line |-> lineNumber,
                  depth |-> KeyDepth(braceLevel)] >>
         ELSE <<>>)

\* a declaration given the depth of its nesting
LineItemsNested(line, lineNumber, braceLevel) ==
    LET keyMatch == KeyMatch(line)
        classMatch == ClassMatch(line)
    IN  IF classMatch # <<>>
        THEN << [label |-> ClassLabelPrefix \o classMatch,
                 shortLabel |-> classMatch,
                 line |-> lineNumber,
                 depth |-> KeyDepth(braceLevel)] >>
        ELSE IF keyMatch # <<>>
        THEN << [label |-> keyMatch,
                 shortLabel |-> keyMatch,
                 line |-> lineNumber,
                 depth |-> KeyDepth(braceLevel)] >>
        ELSE <<>>

\* the key pattern tried before the declaration pattern
LineItemsKeyFirst(line, lineNumber, braceLevel) ==
    LET keyMatch == KeyMatch(line)
        classMatch == ClassMatch(line)
    IN  IF keyMatch # <<>>
        THEN << [label |-> keyMatch,
                 shortLabel |-> keyMatch,
                 line |-> lineNumber,
                 depth |-> KeyDepth(braceLevel)] >>
        ELSE IF classMatch # <<>>
        THEN << [label |-> ClassLabelPrefix \o classMatch,
                 shortLabel |-> classMatch,
                 line |-> lineNumber,
                 depth |-> 0] >>
        ELSE <<>>

\* what one line pushes onto the outline: no item or one
LineItems(line, lineNumber, braceLevel) ==
    LET keyMatch == KeyMatch(line)
        classMatch == ClassMatch(line)
    IN  IF classMatch # <<>>
        THEN << [label |-> ClassLabelPrefix \o classMatch,
                 shortLabel |-> classMatch,
                 line |-> lineNumber,
                 depth |-> 0] >>
        ELSE IF keyMatch # <<>>
        THEN << [label |-> keyMatch,
                 shortLabel |-> keyMatch,
                 line |-> lineNumber,
                 depth |-> KeyDepth(braceLevel)] >>
        ELSE <<>>

\* the depth of a key taken before the brackets of its line are counted
RECURSIVE OutlineFromBefore(_, _, _, _)
OutlineFromBefore(lines, i, braceLevel, outline) ==
    IF i >= Len(lines) THEN outline
    ELSE CHOOSE r \in
             {OutlineFromBefore(lines, i + 1, level,
                                outline \o LineItems(lines[i + 1], i + 1,
                                                     braceLevel)) :
                 level \in {AdjustBraceLevel(lines[i + 1], 1,
                                             Len(lines[i + 1]), braceLevel)}} :
             TRUE

\* the loop over the lines; i is the 0-based index of the code
RECURSIVE OutlineFrom(_, _, _, _)
OutlineFrom(lines, i, braceLevel, outline) ==
    IF i >= Len(lines) THEN outline
    ELSE CHOOSE r \in
             {OutlineFrom(lines, i + 1, level,
                          outline \o LineItems(lines[i + 1], i + 1, level)) :
                 level \in {AdjustBraceLevel(lines[i + 1], 1,
                                             Len(lines[i + 1]), braceLevel)}} :
             TRUE

\* the outline buildOutline computes from the model's lines
OutlineOf(modelLines) ==
    CHOOSE r \in {OutlineFrom(lines, 0, 0, <<>>) :
                     lines \in {SplitLines(GetValue(modelLines))}} :
        TRUE

\* renderOutline: one <li> per item
RenderOutline(outline) ==
    [k \in 1..Len(outline) |->
        [text |-> outline[k].label,
         depth |-> outline[k].depth,
         index |-> k - 1,
         jumpTo |-> outline[k].line,
         active |-> FALSE]]

\* the top level only
JumpFilterStrict(o) == o.depth < 1

\* o => o.depth <= 1
JumpFilter(o) == o.depth <= 1

\* renderJumpList: one <li> per item of depth <= 1
RenderJumpList(outline) ==
    LET forJump == SelectSeq(outline, JumpFilter) IN
    [k \in 1..Len(forJump) |->
        [text |-> IF forJump[k].shortLabel # <<>> THEN forJump[k].shortLabel
                  ELSE forJump[k].label,
         depth |-> forJump[k].depth,
         index |-> k - 1,
         jumpTo |-> forJump[k].line,
         active |-> FALSE]]

----------------------------------------------------------------------------
(* provideFoldingRanges.                                                   *)

\* a range for every popped bracket, also one closed on its own line
FoldStepSameLine(st, ch, line) ==
    IF ch \in OpenBrackets
    THEN [st EXCEPT !.stack = Append(@, [ch |-> ch, line |-> line])]
    ELSE IF ch \in CloseBrackets /\ Len(st.stack) > 0
    THEN [stack |-> SubSeq(st.stack, 1, Len(st.stack) - 1),
          ranges |-> Append(st.ranges,
                            [start |-> st.stack[Len(st.stack)].line,
                             end |-> line,
                             kind |-> "Region"])]
    ELSE st

\* without the test of the stack: a closing bracket that finds it empty
\* gives a range that starts nowhere
FoldStepUnderflow(st, ch, line) ==
    IF ch \in OpenBrackets
    THEN [st EXCEPT !.stack = Append(@, [ch |-> ch, line |-> line])]
    ELSE IF ch \in CloseBrackets
    THEN IF Len(st.stack) > 0
         THEN LET open == st.stack[Len(st.stack)]
                  popped == SubSeq(st.stack, 1, Len(st.stack) - 1)
              IN  IF open.line < line
                  THEN [stack |-> popped,
                        ranges |-> Append(st.ranges,
                                          [start |-> open.line,
                                           end |-> line,
                                           kind |-> "Region"])]
                  ELSE [st EXCEPT !.stack = popped]
         ELSE [st EXCEPT !.ranges = Append(@, [start |-> 0,
                                               end |-> line,
                                               kind |-> "Region"])]
    ELSE st

\* the counterpart of a closing bracket
Opener(ch) ==
    CASE ch = "}" -> "{"
      [] ch = "]" -> "["
      [] ch = ")" -> "("
      [] ch = ">" -> "<"

\* a closing bracket pops only its own kind of opening bracket
FoldStepMatching(st, ch, line) ==
    IF ch \in OpenBrackets
    THEN [st EXCEPT !.stack = Append(@, [ch |-> ch, line |-> line])]
    ELSE IF ch \in CloseBrackets
    THEN IF Len(st.stack) > 0 /\ st.stack[Len(st.stack)].ch = Opener(ch)
         THEN LET open == st.stack[Len(st.stack)]
                  popped == SubSeq(st.stack, 1, Len(st.stack) - 1)
              IN  IF open.line < line
                  THEN [stack |-> popped,
                        ranges |-> Append(st.ranges,
                                          [start |-> open.line,
                                           end |-> line,
                                           kind |-> "Region"])]
                  ELSE [st EXCEPT !.stack = popped]
         ELSE st
    ELSE st

\* the pop moved into the test of the lines: a closing bracket leaves an
\* opening bracket of its own line on the stack
FoldStepPopAcrossLines(st, ch, line) ==
    IF ch \in OpenBrackets
    THEN [st EXCEPT !.stack = Append(@, [ch |-> ch, line |-> line])]
    ELSE IF ch \in CloseBrackets
    THEN IF Len(st.stack) > 0 /\ st.stack[Len(st.stack)].line < line
         THEN [stack |-> SubSeq(st.stack, 1, Len(st.stack) - 1),
               ranges |-> Append(st.ranges,
                                 [start |-> st.stack[Len(st.stack)].line,
                                  end |-> line,
                                  kind |-> "Region"])]
         ELSE st
    ELSE st

\* one character's effect on the stack and the ranges
FoldStep(st, ch, line) ==
    IF ch \in OpenBrackets
    THEN [st EXCEPT !.stack = Append(@, [ch |-> ch, line |-> line])]
    ELSE IF ch \in CloseBrackets
    THEN IF Len(st.stack) > 0
         THEN LET open == st.stack[Len(st.stack)]
                  popped == SubSeq(st.stack, 1, Len(st.stack) - 1)
              IN  IF open.line < line
                  THEN [stack |-> popped,
                        ranges |-> Append(st.ranges,
                                          [start |-> open.line,
                                           end |-> line,
                                           kind |-> "Region"])]
                  ELSE [st EXCEPT !.stack = popped]
         ELSE st
    ELSE st

\* the loop over the characters lo..hi of a line, left to right
RECURSIVE FoldLine(_, _, _, _, _)
FoldLine(text, lo, hi, line, st) ==
    IF lo > hi THEN st
    ELSE IF lo = hi THEN FoldStep(st, text[lo], line)
    ELSE LET mid == (lo + hi) \div 2 IN
         CHOOSE r \in {FoldLine(text, mid + 1, hi, line, left) :
                          left \in {FoldLine(text, lo, mid, line, st)}} :
             TRUE

RECURSIVE FoldFrom(_, _, _)
FoldFrom(modelLines, line, st) ==
    IF line > Len(modelLines) THEN st
    ELSE CHOOSE r \in
             {FoldFrom(modelLines, line + 1, after) :
                 after \in {FoldLine(modelLines[line], 1,
                                     Len(modelLines[line]), line, st)}} :
             TRUE

ProvideFoldingRanges(modelLines) ==
    FoldFrom(modelLines, 1, [stack |-> <<>>, ranges |-> <<>>]).ranges

----------------------------------------------------------------------------
(* updateActiveOutlineFromCursor.                                          *)

\* the comparison made strict
ItemAbove(itemLine, lineNumber) == itemLine < lineNumber

\* line <= pos.lineNumber
ItemAtOrAbove(itemLine, lineNumber) == itemLine <= lineNumber

\* the loop with its break; i and bestIndex are 0-based
RECURSIVE BestIndexFrom(_, _, _, _)
BestIndexFrom(outline, i, lineNumber, bestIndex) ==
    IF i >= Len(outline) THEN bestIndex
    ELSE IF ItemAtOrAbove(outline[i + 1].line, lineNumber)
         THEN BestIndexFrom(outline, i + 1, lineNumber, i)
         ELSE bestIndex

\* the index looked up in the outline of the document as it is now
BestIndexOfDocument(outline, lineNumber) ==
    BestIndexFrom(OutlineOf(doc), 0, lineNumber, -1)

BestIndex(outline, lineNumber) == BestIndexFrom(outline, 0, lineNumber, -1)

MarkOutlineItems(items, idx) ==
    [k \in 1..Len(items) |-> [items[k] EXCEPT !.active = (k - 1 = idx)]]

MarkJumpItems(items, outline, idx) ==
    IF idx >= 0 /\ idx < Len(outline)
    THEN [k \in 1..Len(items) |->
            [items[k] EXCEPT
                !.active = (items[k].text = outline[idx + 1].shortLabel)]]
    ELSE [k \in 1..Len(items) |-> [items[k] EXCEPT !.active = FALSE]]

----------------------------------------------------------------------------
(* updateSchemaFromCursor, setSchemaDocs, persistLastSchema.               *)

VDataSuffix == <<"V", "D", "a", "t", "a">>

CAbilityPrefix == <<"C", "A", "b", "i", "l", "i", "t", "y", "_">>

CitadelAbilityPart ==
    <<"C", "i", "t", "a", "d", "e", "l", "A", "b", "i", "l", "i", "t", "y">>

AllowListed(candidate) ==
    \/ EndsWith(candidate, VDataSuffix)
    \/ StartsWith(candidate, CAbilityPrefix)
    \/ Includes(candidate, CitadelAbilityPart)

\* the two steps in the other order
ResolveGenericFirst(lineText) ==
    LET candidate == GenericMatch(lineText) IN
    IF candidate # <<>> /\ AllowListed(candidate) THEN candidate
    ELSE ClassMatch(lineText)

\* the name the handler derives from the line, <<>> if none
ResolveSchemaName(lineText) ==
    LET classMatch == ClassMatch(lineText) IN
    IF classMatch # <<>> THEN classMatch
    ELSE LET candidate == GenericMatch(lineText) IN
         IF candidate # <<>> /\ AllowListed(candidate) THEN candidate
         ELSE <<>>

\* without the comparison with the current name
SchemaResolved(schemaName, current) == schemaName # <<>>

\* without the test for no name
SchemaDiffers(schemaName, current) == schemaName # current

\* whether the handler goes on to its side effects
SchemaChanged(schemaName, current) ==
    schemaName # <<>> /\ schemaName # current

BaseUrl == <<"https://deadlockmodding.pages.dev/schemas/client/">>

\* the characters encodeURIComponent leaves alone
Unreserved ==
    Letters \cup Digits \cup {"-", "_", ".", "!", "~", "*", "'", "(", ")"}

PercentCode(c) ==
    CASE c = " "  -> <<"%", "2", "0">>
      [] c = "\t" -> <<"%", "0", "9">>
      [] c = "="  -> <<"%", "3", "D">>
      [] c = "/"  -> <<"%", "2", "F">>
      [] c = ","  -> <<"%", "2", "C">>
      [] c = "{"  -> <<"%", "7", "B">>
      [] c = "}"  -> <<"%", "7", "D">>
      [] c = "["  -> <<"%", "5", "B">>
      [] c = "]"  -> <<"%", "5", "D">>
      [] c = "<"  -> <<"%", "3", "C">>
      [] c = ">"  -> <<"%", "3", "E">>
      [] c = Quote -> <<"%", "2", "2">>

RECURSIVE EncodeRange(_, _, _)
EncodeRange(s, lo, hi) ==
    IF lo > hi THEN <<>>
    ELSE IF lo = hi
         THEN (IF s[lo] \in Unreserved THEN <<s[lo]>> ELSE PercentCode(s[lo]))
    ELSE LET mid == (lo + hi) \div 2 IN
         EncodeRange(s, lo, mid) \o EncodeRange(s, mid + 1, hi)

EncodeURIComponent(s) == EncodeRange(s, 1, Len(s))

SchemaUrl(schemaName) == BaseUrl \o EncodeURIComponent(schemaName)

\* localStorage[LAST_SCHEMA_KEY]: whether the key is there, whether its text
\* is the JSON of an object, and the object's name and ts (<<>> and 0 when
\* it has none)
NoRecord == [present |-> FALSE, json |-> TRUE, name |-> <<>>, ts |-> 0]

\* what persistLastSchema stores; setItem may throw, and the throw is caught
PersistLastSchema(old, schemaName, ok) ==
    IF ok
    THEN [present |-> TRUE, json |-> TRUE, name |-> schemaName, ts |-> DateNow]
    ELSE old

\* setItem's exception let out
PersistRaisesUncaught(ok) == ~ok

\* whether persistLastSchema lets setItem's exception out: the catch ignores it
PersistRaises(ok) == FALSE

\* the horizon itself counted as expired
RestoreStrictlyYounger(rec) ==
    IF ~rec.present THEN <<>>
    ELSE IF ~rec.json THEN <<>>
    ELSE IF rec.name = <<>> \/ rec.ts = 0 THEN <<>>
    ELSE IF DateNow - rec.ts >= SETTINGS_TTL_MS THEN <<>>
    ELSE rec.name

\* restoreLastSchemaFromLocal: the name restored, <<>> if none
RestoreLastSchema(rec) ==
    IF ~rec.present THEN <<>>
    ELSE IF ~rec.json THEN <<>>
    ELSE IF rec.name = <<>> \/ rec.ts = 0 THEN <<>>
    ELSE IF DateNow - rec.ts > SETTINGS_TTL_MS THEN <<>>
    ELSE rec.name

----------------------------------------------------------------------------
(* scheduleOutlineUpdate and the browser's timers.                         *)

TimerIds(ts) == {t.id : t \in ts}

\* setTimeout's handle: an id no pending timeout has; the least is taken
FreshTimerId(ts) ==
    CHOOSE id \in 1..(Cardinality(ts) + 1) :
        /\ id \notin TimerIds(ts)
        /\ \A j \in 1..(id - 1) : j \in TimerIds(ts)

ClearTimeout(ts, handle) == {t \in ts : t.id # handle}

\* without clearTimeout
ScheduleWithoutClear(ts, handle) ==
    [timers |-> ts \cup {[id |-> FreshTimerId(ts), remaining |-> Delay]},
     handle |-> FreshTimerId(ts)]

\* a throttle: a pending timeout is left to run
ScheduleThrottled(ts, handle) ==
    IF ts # {} THEN [timers |-> ts, handle |-> handle]
    ELSE [timers |-> {[id |-> 1, remaining |-> Delay]}, handle |-> 1]

\* only the first call sets a timeout
ScheduleOnlyFirst(ts, handle) ==
    IF handle # 0 THEN [timers |-> ts, handle |-> handle]
    ELSE [timers |-> ts \cup {[id |-> FreshTimerId(ts), remaining |-> Delay]},
          handle |-> FreshTimerId(ts)]

\* the pending timeouts and the handle after scheduleOutlineUpdate()
ScheduleOutlineUpdate(ts, handle) ==
    LET cleared == IF handle # 0 THEN ClearTimeout(ts, handle) ELSE ts
        id == FreshTimerId(cleared)
    IN  [timers |-> cleared \cup {[id |-> id, remaining |-> Delay]},
         handle |-> id]

----------------------------------------------------------------------------
(* Inputs.                                                                 *)

\* the lines scanned documents are made of
ScanPool ==
    {<<"{">>,
      <<"}">>,
      <<"\t", "_", "c", "l", "a", "s", "s", " ", "=", " ", "\"", "F", "o", "o", "\"">>,
      <<"a", " ", "=", " ", "[", "(", "<">>,
      <<"b", " ", "=", " ", "1">>,
      <<"c", " ", "=", " ", "{", "}">>,
      <<"e", " ", "=", " ", "}">>,
      <<")", ">">>}

\* the lines the schema resolver's documents are made of
SchemaPool ==
    {<<"\"", "C", "A", "b", "i", "l", "i", "t", "y", "_", "F", "o", "o", "_", "V", "D", "a", "t", "a", "\"">>,
      <<"\t", "_", "c", "l", "a", "s", "s", " ", "=", " ", "\"", "F", "o", "o", "\"">>,
      <<"k", " ", "=", " ", "\"", "b", "a", "r", "\"", " ", "\"", "C", "A", "b", "i", "l", "i", "t", "y", "_", "X", "\"">>,
      <<"\"", "C", "i", "t", "a", "d", "e", "l", "A", "b", "i", "l", "i", "t", "y", "A", "\"", " ", "_", "c", "l", "a", "s", "s", " ", "=", " ", "\"", "X", "\"">>,
      <<"_", "c", "l", "a", "s", "s", " ", "=", " ", "\"", "X", "\"", " ", "\"", "A", "V", "D", "a", "t", "a", "\"">>,
      <<"k", " ", "=", " ", "\"", "b", "a", "r", "\"">>,
      <<"b", " ", "=", " ", "1">>,
      <<"m", " ", "=", " ", "\"", "x", "C", "i", "t", "a", "d", "e", "l", "A", "b", "i", "l", "i", "t", "y", "y", "\"">>}

\* the editor's initial value
DefaultDoc ==
    <<<<"/", "/", " ", "D", "e", "a", "d", "l", "o", "c", "k", " ", "V", "D", "A", "T", "A", " ", "E", "d", "i", "t", "o", "r">>,
      <<"/", "/", " ", "O", "p", "e", "n", " ", "a", " ", ".", "v", "d", "a", "t", "a", " ", "f", "i", "l", "e", " ", "o", "r", " ", "p", "a", "s", "t", "e", " ", "K", "V", "3", " ", "c", "o", "n", "t", "e", "n", "t", " ", "t", "o", " ", "b", "e", "g", "i", "n", ".">>,
      <<>>,
      <<"{">>,
      <<"\t", "_", "c", "l", "a", "s", "s", " ", "=", " ", "\"", "C", "i", "t", "a", "d", "e", "l", "A", "b", "i", "l", "i", "t", "y", "V", "D", "a", "t", "a", "\"">>,
      <<"\t", "/", "/", " ", ".", ".", ".">>,
      <<"}">>>>

ScenarioA ==
    <<<<"{">>,
      <<"\t", "_", "c", "l", "a", "s", "s", " ", "=", " ", "\"", "F", "o", "o", "\"">>,
      <<"}">>>>

ScenarioB ==
    <<<<"a", " ", "=", " ", "1">>,
      <<"b", " ", "=", " ", "2">>>>

NestedDoc ==
    <<<<"a", " ", "=", " ", "{">>,
      <<"b", " ", "=", " ", "[">>,
      <<"c", " ", "=", " ", "1">>>>

FooVData == <<"F", "o", "o", "V", "D", "a", "t", "a">>

\* every document of 1..n lines of a pool
DocsOver(pool, n) == UNION {[1..k -> pool] : k \in 1..n}

ScanDocs == DocsOver(ScanPool, MaxLines)

SchemaDocs == DocsOver(SchemaPool, MaxSchemaLines)

\* the documents an edit may leave in the editor
EditDocs == {DefaultDoc, ScenarioA, ScenarioB, NestedDoc}

\* what localStorage may hold when the session starts
StoredRecords ==
    {NoRecord,
     [present |-> TRUE, json |-> TRUE, name |-> FooVData, ts |-> DateNow - 1],
     [present |-> TRUE, json |-> TRUE, name |-> FooVData,
      ts |-> DateNow - SETTINGS_TTL_MS - 1]}

\* every record the storage may hold at the start of a session: none, one
\* an hour, exactly the horizon and more than the horizon old, text
\* that is no JSON, and objects without a name or without a ts
SessionRecords ==
    StoredRecords \cup
    {[present |-> TRUE, json |-> TRUE, name |-> FooVData,
      ts |-> DateNow - SETTINGS_TTL_MS],
     [present |-> TRUE, json |-> FALSE, name |-> <<>>, ts |-> 0],
     [present |-> TRUE, json |-> TRUE, name |-> <<>>, ts |-> DateNow - 1],
     [present |-> TRUE, json |-> TRUE, name |-> FooVData, ts |-> 0]}

\* currentFileName as declared
UntitledName == "untitled.vdata"

\* the value the New file button sets
NewFileDoc ==
    <<<<"/", "/", " ", "N", "e", "w", " ", "D", "e", "a", "d", "l", "o", "c", "k", " ", "V", "D", "A", "T", "A">>,
      <<>>,
      <<"{">>,
      <<"\t", "_", "c", "l", "a", "s", "s", " ", "=", " ", "\"", "C", "i", "t", "a", "d", "e", "l", "A", "b", "i", "l", "i", "t", "y", "V", "D", "a", "t", "a", "\"">>,
      <<"\t", "/", "/", " ", ".", ".", ".">>,
      <<"}">>>>

\* the files the user may select: Scenario A with "\n" line ends, and a
\* file of two lines with "\r\n" line ends and no name
UserFiles ==
    {[name |-> "foo.vdata", text |-> GetValue(ScenarioA)],
     [name |-> "", text |-> <<"k", " ", "=", " ", "1", "\r", "\n",
                              "\"", "C", "A", "b", "i", "l", "i", "t", "y",
                              "_", "X", "\"">>]}

NoFx == [writes |-> 0, navs |-> 0]

\* whether a setItem succeeds: it may always fail (quota), and it does when
\* the storage is denied
SetItemOutcomes == IF storageDenied THEN {FALSE} ELSE BOOLEAN

----------------------------------------------------------------------------
(* The handlers.                                                           *)

\* the new items added to the old ones
BuildOutlineMerged(prevOutline, modelLines) ==
    prevOutline \o OutlineOf(modelLines)

\* lastOutline after buildOutline() has run on the model
BuildOutline(prevOutline, modelLines) == OutlineOf(modelLines)

\* editor.onDidChangeModelContent: setDirty(true); scheduleOutlineUpdate()
OnDidChangeModelContent(newDoc) ==
    LET sch == ScheduleOutlineUpdate(timers, outlineUpdateTimer) IN
    /\ editor
    /\ doc' = newDoc
    /\ cursorLine' = Min(cursorLine, Len(newDoc))
    /\ isDirty' = TRUE
    /\ timers' = sch.timers
    /\ outlineUpdateTimer' = sch.handle
    /\ lastOp' = "edit"
    /\ fx' = NoFx
    /\ UNCHANGED <<lastOutline, outlineList, jumpList, currentSchemaName,
                   docsIframeSrc, storage, foldRanges, uncaught>>
    /\ UNCHANGED <<hostVars, fileVars>>

\* a timeout set by scheduleOutlineUpdate expires: buildOutline()
BuildOutlineFired ==
    \E t \in timers :
        /\ editor
        /\ t.remaining = 0
        /\ timers' = timers \ {t}
        /\ lastOutline' = BuildOutline(lastOutline, doc)
        /\ outlineList' = RenderOutline(lastOutline')
        /\ jumpList' = RenderJumpList(lastOutline')
        /\ lastOp' = "rebuild"
        /\ fx' = NoFx
        /\ UNCHANGED <<doc, cursorLine, outlineUpdateTimer, currentSchemaName,
                       docsIframeSrc, storage, foldRanges, isDirty, uncaught>>
        /\ UNCHANGED <<hostVars, fileVars>>

\* editor.onDidChangeCursorPosition: updateActiveOutlineFromCursor(pos) and
\* updateSchemaFromCursor(pos); storageOk is whether setItem succeeds
OnDidChangeCursorPosition(lineNumber, storageOk) ==
    LET idx == BestIndex(lastOutline, lineNumber)
        schemaName == ResolveSchemaName(doc[lineNumber])
    IN
    /\ editor
    /\ cursorLine' = lineNumber
    /\ IF Len(lastOutline) = 0
       THEN UNCHANGED <<outlineList, jumpList>>
       ELSE /\ outlineList' = MarkOutlineItems(outlineList, idx)
            /\ jumpList' = MarkJumpItems(jumpList, lastOutline, idx)
    /\ IF SchemaChanged(schemaName, currentSchemaName)
       THEN /\ currentSchemaName' = schemaName
            /\ docsIframeSrc' = SchemaUrl(schemaName)
            /\ storage' = PersistLastSchema(storage, schemaName, storageOk)
            /\ uncaught' = (uncaught \/ PersistRaises(storageOk))
            /\ fx' = [writes |-> 1, navs |-> 1]
       ELSE /\ UNCHANGED <<currentSchemaName, docsIframeSrc, storage, uncaught>>
            /\ fx' = NoFx
    /\ lastOp' = "cursor"
    /\ UNCHANGED <<doc, lastOutline, outlineUpdateTimer, timers, foldRanges,
                   isDirty>>
    /\ UNCHANGED <<hostVars, fileVars>>

\* the editor asks the folding range provider for the model's ranges
FoldingRangesProvided ==
    /\ editor
    /\ foldRanges' = ProvideFoldingRanges(doc)
    /\ lastOp' = "fold"
    /\ fx' = NoFx
    /\ UNCHANGED <<doc, cursorLine, lastOutline, outlineList, jumpList,
                   outlineUpdateTimer, timers, currentSchemaName,
                   docsIframeSrc, storage, isDirty, uncaught>>
    /\ UNCHANGED <<hostVars, fileVars>>

\* editor.setValue(text): the model's lines are the pieces of the text
\* between its line ends
SetValue(text) == SplitLines(text)

\* file.name || "untitled.vdata"
FileNameOr(name) == IF name # "" THEN name ELSE UntitledName

\* what the cursor handlers leave when the editor reports line 1 of the
\* lines just set: the lists are marked against lastOutline as it is, and
\* the schema is resolved from the new line
CursorAtTop(lines, storageOk) ==
    LET idx == BestIndex(lastOutline, 1)
        schemaName == ResolveSchemaName(lines[1])
        changed == SchemaChanged(schemaName, currentSchemaName)
    IN  [outlineList |-> IF Len(lastOutline) = 0 THEN outlineList
                         ELSE MarkOutlineItems(outlineList, idx),
         jumpList |-> IF Len(lastOutline) = 0 THEN jumpList
                      ELSE MarkJumpItems(jumpList, lastOutline, idx),
         currentSchemaName |-> IF changed THEN schemaName
                               ELSE currentSchemaName,
         docsIframeSrc |-> IF changed THEN SchemaUrl(schemaName)
                           ELSE docsIframeSrc,
         storage |-> IF changed
                     THEN PersistLastSchema(storage, schemaName, storageOk)
                     ELSE storage,
         uncaught |-> IF changed THEN uncaught \/ PersistRaises(storageOk)
                      ELSE uncaught,
         fx |-> IF changed THEN [writes |-> 1, navs |-> 1] ELSE NoFx]

\* editor.setValue(text) and what follows it in both replacing handlers:
\* the model is flushed and the cursor is back on line 1; the content
\* handler runs (setDirty(true); scheduleOutlineUpdate()); the cursor
\* handlers run if the editor reports the cursor as moved (cursorEvent);
\* then the handler itself does setDirty(false) and scheduleOutlineUpdate()
ReplaceDocument(text, cursorEvent, storageOk) ==
    LET lines == SetValue(text)
        first == ScheduleOutlineUpdate(timers, outlineUpdateTimer)
        second == ScheduleOutlineUpdate(first.timers, first.handle)
        moved == CursorAtTop(lines, storageOk)
    IN
    /\ doc' = lines
    /\ cursorLine' = 1
    /\ isDirty' = FALSE
    /\ timers' = second.timers
    /\ outlineUpdateTimer' = second.handle
    /\ IF cursorEvent
       THEN /\ outlineList' = moved.outlineList
            /\ jumpList' = moved.jumpList
            /\ currentSchemaName' = moved.currentSchemaName
            /\ docsIframeSrc' = moved.docsIframeSrc
            /\ storage' = moved.storage
            /\ uncaught' = moved.uncaught
            /\ fx' = moved.fx
       ELSE /\ UNCHANGED <<outlineList, jumpList, currentSchemaName,
                           docsIframeSrc, storage, uncaught>>
            /\ fx' = NoFx
    /\ UNCHANGED <<lastOutline, foldRanges, hostVars>>

\* fileInput's change listener: the name is taken and a read is started
FileInputChanged(file) ==
    /\ windowRequire
    /\ currentFileName' = FileNameOr(file.name)
    /\ reads' = reads \cup {file}
    /\ lastOp' = "select"
    /\ fx' = NoFx
    /\ UNCHANGED <<doc, cursorLine, lastOutline, outlineList, jumpList,
                   outlineUpdateTimer, timers, currentSchemaName,
                   docsIframeSrc, storage, foldRanges, isDirty, uncaught,
                   hostVars>>

\* reader.onload of a read in flight
ReaderLoaded(file, cursorEvent, storageOk) ==
    /\ file \in reads
    /\ editor
    /\ reads' = reads \ {file}
    /\ ReplaceDocument(file.text, cursorEvent, storageOk)
    /\ lastOp' = "open"
    /\ UNCHANGED currentFileName

\* newFileBtn's click listener
NewFileClicked(cursorEvent, storageOk) ==
    /\ windowRequire
    /\ editor
    /\ ReplaceDocument(GetValue(NewFileDoc), cursorEvent, storageOk)
    /\ currentFileName' = UntitledName
    /\ lastOp' = "new"
    /\ UNCHANGED reads

\* the listener jumping to the line numbered like the entry
OutlineItemClickedByIndex(li, storageOk) ==
    /\ editor
    /\ OnDidChangeCursorPosition(Max(1, Min(li.index + 1, Len(doc))),
                                 storageOk)

\* the click listener of an <li> of either list: jumpToLine(item.line); the
\* editor keeps the position within the model and reports the cursor
OutlineItemClicked(li, storageOk) ==
    /\ editor
    /\ OnDidChangeCursorPosition(Max(1, Min(li.jumpTo, Len(doc))), storageOk)

\* 100ms pass; a timeout that is due runs before more time passes
AdvanceTime ==
    /\ \A t \in timers : t.remaining > 0
    /\ timers' = {[t EXCEPT !.remaining = @ - 1] : t \in timers}
    /\ UNCHANGED <<doc, cursorLine, lastOutline, outlineList, jumpList,
                   outlineUpdateTimer, currentSchemaName, docsIframeSrc,
                   storage, foldRanges, isDirty, uncaught, lastOp, fx>>
    /\ UNCHANGED <<hostVars, fileVars>>

----------------------------------------------------------------------------
(* The specifications.                                                     *)

\* what restoreLastSchemaFromLocal makes the current name; getItem's
\* exception is caught like JSON.parse's
RestoreLastSchemaFromLocal(rec, denied) ==
    IF denied THEN <<>> ELSE RestoreLastSchema(rec)

\* whether restoreLastSchemaFromLocal lets an exception out: the catch
\* ignores it
RestoreRaises(rec, denied) == FALSE

\* the state createEditor() and restoreLastSchemaFromLocal() leave, the
\* document being d, the stored record rec and the storage denied or not,
\* with `elapsed` of the first timeout's delay gone
InitStarted(d, rec, denied, elapsed) ==
    /\ editor = TRUE
    /\ consoleErrors = 0
    /\ uncaught = RestoreRaises(rec, denied)
    /\ storageDenied = denied
    /\ currentFileName = UntitledName
    /\ reads = {}
    /\ doc = d
    /\ cursorLine = 1
    /\ lastOutline = <<>>
    /\ outlineList = <<>>
    /\ jumpList = <<>>
    /\ outlineUpdateTimer = 1
    /\ timers = {[id |-> 1, remaining |-> Delay - elapsed]}
    /\ storage = rec
    /\ currentSchemaName = RestoreLastSchemaFromLocal(rec, denied)
    /\ docsIframeSrc = IF RestoreLastSchemaFromLocal(rec, denied) # <<>>
                       THEN SchemaUrl(RestoreLastSchemaFromLocal(rec, denied))
                       ELSE <<>>
    /\ foldRanges = <<>>
    /\ isDirty = FALSE
    /\ lastOp = "init"
    /\ fx = NoFx
    /\ sinceEdit = elapsed
    /\ edits = 1
    /\ burstsLo = 1
    /\ burstsHi = 1
    /\ rebuilds = 0
    /\ firedGap = -1

InitWith(d, rec, elapsed) ==
    /\ windowRequire = TRUE
    /\ InitStarted(d, rec, FALSE, elapsed)

Init == \E rec \in StoredRecords : InitWith(DefaultDoc, rec, 0)

\* the loader taken to be there
LoaderAssumed(req) == TRUE

\* if (!window.require)
LoaderAvailable(req) == req

\* the state the script leaves when it returns at the loader check: the
\* module state as declared, a diagnostic logged, nothing else done
InitAborted(rec, denied) ==
    /\ editor = FALSE
    /\ consoleErrors = 1
    /\ uncaught = FALSE
    /\ storageDenied = denied
    /\ currentFileName = UntitledName
    /\ reads = {}
    /\ doc = <<>>
    /\ cursorLine = 1
    /\ lastOutline = <<>>
    /\ outlineList = <<>>
    /\ jumpList = <<>>
    /\ outlineUpdateTimer = 0
    /\ timers = {}
    /\ storage = rec
    /\ currentSchemaName = <<>>
    /\ docsIframeSrc = <<>>
    /\ foldRanges = <<>>
    /\ isDirty = FALSE
    /\ lastOp = "abort"
    /\ fx = NoFx
    /\ sinceEdit = 0
    /\ edits = 0
    /\ burstsLo = 0
    /\ burstsHi = 0
    /\ rebuilds = 0
    /\ firedGap = -1

\* the start of a session: the loader is there or not, the storage holds
\* any record and is denied or not
InitSession ==
    \E req \in BOOLEAN, rec \in SessionRecords, denied \in BOOLEAN :
        /\ windowRequire = req
        /\ IF LoaderAvailable(req)
           THEN InitStarted(DefaultDoc, rec, denied, 0)
           ELSE InitAborted(rec, denied)

\* a content change, the history variables left alone
ContentChanged ==
    /\ \E d \in EditDocs \ {doc} : OnDidChangeModelContent(d)
    /\ UNCHANGED histVars

OutlineRebuilt ==
    /\ BuildOutlineFired
    /\ UNCHANGED histVars

CursorMoved ==
    /\ \E lineNumber \in 1..Len(doc), storageOk \in SetItemOutcomes :
           OnDidChangeCursorPosition(lineNumber, storageOk)
    /\ UNCHANGED histVars

FoldingRequested ==
    /\ FoldingRangesProvided
    /\ UNCHANGED histVars

EntryClicked ==
    /\ \E k \in 1..Len(outlineList), storageOk \in SetItemOutcomes :
           OutlineItemClicked(outlineList[k], storageOk)
    /\ UNCHANGED histVars

JumpEntryClicked ==
    /\ \E k \in 1..Len(jumpList), storageOk \in SetItemOutcomes :
           OutlineItemClicked(jumpList[k], storageOk)
    /\ UNCHANGED histVars

TimePassed ==
    /\ timers # {}
    /\ AdvanceTime
    /\ UNCHANGED histVars

Next ==
    \/ ContentChanged
    \/ TimePassed
    \/ OutlineRebuilt
    \/ CursorMoved
    \/ FoldingRequested

Spec == Init /\ [][Next]_vars

(* The debounce, observed: the history variables count the schedule       *)
(* requests, the bursts they form and the rebuilds.                        *)

Edit ==
    /\ edits < MaxEdits
    /\ \E d \in EditDocs \ {doc} : OnDidChangeModelContent(d)
    /\ edits' = edits + 1
    /\ sinceEdit' = 0
    /\ burstsLo' = burstsLo + (IF sinceEdit > Delay THEN 1 ELSE 0)
    /\ burstsHi' = burstsHi + (IF sinceEdit >= Delay THEN 1 ELSE 0)
    /\ UNCHANGED <<rebuilds, firedGap>>

TimerFired ==
    /\ BuildOutlineFired
    /\ rebuilds' = rebuilds + 1
    /\ firedGap' = sinceEdit
    /\ UNCHANGED <<sinceEdit, edits, burstsLo, burstsHi>>

Tick ==
    /\ timers # {} \/ sinceEdit <= Delay
    /\ AdvanceTime
    /\ sinceEdit' = Min(sinceEdit + 1, Delay + 1)
    /\ UNCHANGED <<edits, burstsLo, burstsHi, rebuilds, firedGap>>

NextTimed ==
    \/ Edit
    \/ Tick
    \/ TimerFired

SpecTimed == Init /\ [][NextTimed]_vars

\* the timer callback and the passing of time are never postponed for ever
FairSpecTimed == SpecTimed /\ WF_vars(TimerFired) /\ WF_vars(Tick)

(* The start of a session and the cursor handlers on the initial value.    *)

NextStart ==
    \/ TimerFired
    \/ Tick
    \/ CursorMoved

SpecStart == InitSession /\ [][NextStart]_vars

(* The replacement of the document: files are selected and read, New file *)
(* is clicked, entries of the lists are clicked.                           *)

FileSelected ==
    /\ Cardinality(reads) < MaxReads
    /\ \E file \in UserFiles \ reads : FileInputChanged(file)
    /\ UNCHANGED histVars

FileRead ==
    /\ \E file \in reads, cursorEvent \in BOOLEAN,
          storageOk \in SetItemOutcomes :
           ReaderLoaded(file, cursorEvent, storageOk)
    /\ UNCHANGED histVars

NewFile ==
    /\ \E cursorEvent \in BOOLEAN, storageOk \in SetItemOutcomes :
           NewFileClicked(cursorEvent, storageOk)
    /\ UNCHANGED histVars

NextFiles ==
    \/ FileSelected
    \/ FileRead
    \/ NewFile
    \/ EntryClicked
    \/ JumpEntryClicked
    \/ CursorMoved
    \/ OutlineRebuilt
    \/ TimePassed

InitFiles == InitWith(DefaultDoc, NoRecord, 0)

SpecFiles == InitFiles /\ [][NextFiles]_vars

(* Every way the content changes, typing included, with the rebuilds and  *)
(* the time between them; the cursor stays where the changes put it.      *)

NextEdits ==
    \/ ContentChanged
    \/ FileSelected
    \/ FileRead
    \/ NewFile
    \/ OutlineRebuilt
    \/ TimePassed

SpecEdits == InitFiles /\ [][NextEdits]_vars

(* The scans and the cursor handlers on every document of a pool: a       *)
(* document has been loaded and its rebuild is due.                        *)

InitScan == \E d \in ScanDocs : InitWith(d, NoRecord, Delay)

NextStatic ==
    \/ TimerFired
    \/ CursorMoved
    \/ EntryClicked
    \/ JumpEntryClicked
    \/ FoldingRequested

SpecScan == InitScan /\ [][NextStatic]_vars

InitSchema == \E d \in SchemaDocs : InitWith(d, NoRecord, Delay)

SpecSchema == InitSchema /\ [][NextStatic]_vars

----------------------------------------------------------------------------
(* Properties.                                                             *)

\* C1: after any rebuild of any document the items of lastOutline have
\* strictly increasing line numbers (at most one item per line).
OutlineLinesStrictlyIncrease ==
    \A i, j \in 1..Len(lastOutline) :
        i < j => lastOutline[i].line < lastOutline[j].line

\* a rebuild has produced an item on each of three lines
OutlineOfSeveralItems ==
    /\ rebuilds >= 1
    /\ Len(lastOutline) >= 3

\* C2: every item of lastOutline has a depth in 0..2, also when the document
\* nests deeper than two brackets or its brackets are unbalanced.
OutlineDepthCapped ==
    \A i \in 1..Len(lastOutline) : lastOutline[i].depth \in 0..2

\* a key below three or more open brackets was given depth 2
DeepKeyCapped ==
    \E i \in 1..Len(lastOutline) :
        /\ lastOutline[i].depth = 2
        /\ lastOutline[i].shortLabel = <<"a">>
        /\ Len(SelectSeq(doc[lastOutline[i].line],
                         LAMBDA c : c \in OpenBrackets)) >= 3

\* C3: every fold range has start < end, its start a line with an opening
\* bracket and its end a line with a closing bracket; a bracket opened and
\* closed on one line gives no range.
FoldRangesSpanLines ==
    \A k \in 1..Len(foldRanges) :
        /\ foldRanges[k].start < foldRanges[k].end
        /\ foldRanges[k].start \in 1..Len(doc)
        /\ foldRanges[k].end \in 1..Len(doc)
        /\ \E c \in 1..Len(doc[foldRanges[k].start]) :
               doc[foldRanges[k].start][c] \in OpenBrackets
        /\ \E c \in 1..Len(doc[foldRanges[k].end]) :
               doc[foldRanges[k].end][c] \in CloseBrackets

\* ranges were computed for a document that also holds a one-line pair
FoldedBesideOneLinePair ==
    /\ lastOp = "fold"
    /\ Len(foldRanges) >= 1
    /\ \E l \in 1..Len(doc) : doc[l] = <<"c", " ", "=", " ", "{", "}">>

\* the greatest 0-based index of an item at or above the line, -1 if none
GreatestIndexAtOrAbove(outline, lineNumber) ==
    LET S == {i \in 0..(Len(outline) - 1) : outline[i + 1].line <= lineNumber}
    IN  IF S = {} THEN -1 ELSE CHOOSE i \in S : \A j \in S : j <= i

HighlightedIndices == {k - 1 : k \in {n \in 1..Len(outlineList) : outlineList[n].active}}

\* C4: after a cursor move to line L the active index is the greatest i with
\* lastOutline[i].line <= L, and there is none when no item qualifies.
ActiveIndexIsGreatestAtOrAbove ==
    lastOp = "cursor" =>
        HighlightedIndices =
            (IF GreatestIndexAtOrAbove(lastOutline, cursorLine) = -1 THEN {}
             ELSE {GreatestIndexAtOrAbove(lastOutline, cursorLine)})

\* the cursor stands between two items and the upper one is highlighted
CursorBetweenItems ==
    /\ lastOp = "cursor"
    /\ Len(lastOutline) >= 2
    /\ lastOutline[1].line < cursorLine
    /\ cursorLine < lastOutline[2].line
    /\ HighlightedIndices = {0}

PendingRebuilds == IF timers # {} THEN 1 ELSE 0

\* C5: the schedule requests are coalesced by bursts: at most one timeout is
\* pending, a rebuild fires Delay after the last request, and the rebuilds
\* (with the pending one) are as many as the bursts, a burst being a maximal
\* run of requests with gaps below Delay (burstsLo and burstsHi differ only
\* by the gaps of exactly Delay).
DebounceCoalesces ==
    /\ Cardinality(timers) <= 1
    /\ firedGap \in {-1, Delay}
    /\ burstsLo <= rebuilds + PendingRebuilds
    /\ rebuilds + PendingRebuilds <= burstsHi

\* three requests in two bursts have given two rebuilds
TwoBurstsTwoRebuilds ==
    /\ edits = 3
    /\ burstsLo = 2
    /\ burstsHi = 2
    /\ rebuilds = 2
    /\ timers = {}

\* C6: no rebuild fires less than Delay after the most recent request: a
\* step that ends within Delay of it leaves lastOutline as it was.
NoRebuildWithinDelay ==
    [][sinceEdit' < Delay =>
          (lastOutline' = lastOutline /\ rebuilds' = rebuilds)]_vars

\* two requests of a second burst, and the outline is still the first one's
BurstKeepsOldOutline ==
    /\ rebuilds = 1
    /\ edits = 3
    /\ burstsHi = 2
    /\ sinceEdit < Delay
    /\ timers # {}
    /\ doc # DefaultDoc
    /\ lastOutline = OutlineOf(DefaultDoc)

\* C7: a pending rebuild eventually fires, and right after a rebuild
\* lastOutline is the outline of the document as it then is, whatever it was
\* before.
RebuildFollowsEdit ==
    /\ [](lastOp = "rebuild" => lastOutline = OutlineOf(doc))
    /\ (timers # {}) ~> (lastOp = "rebuild" /\ timers = {})

\* a second rebuild has replaced a non-empty outline by a different one
OutlineReplaced ==
    /\ lastOp = "rebuild"
    /\ rebuilds = 2
    /\ lastOutline # <<>>
    /\ lastOutline # OutlineOf(DefaultDoc)

\* C8: a cursor move writes the record once and navigates once exactly when
\* the name resolved from the cursor line is non-empty and differs from the
\* current schema name; otherwise it does neither.
SchemaEffectsOnChange ==
    [][lastOp' = "cursor" =>
          IF /\ ResolveSchemaName(doc[cursorLine']) # <<>>
             /\ ResolveSchemaName(doc[cursorLine']) # currentSchemaName
          THEN /\ fx' = [writes |-> 1, navs |-> 1]
               /\ currentSchemaName' = ResolveSchemaName(doc[cursorLine'])
               /\ docsIframeSrc' = SchemaUrl(currentSchemaName')
          ELSE /\ fx' = NoFx
               /\ UNCHANGED <<currentSchemaName, docsIframeSrc, storage>>]_vars

\* a move onto a line that resolves the current name has done nothing
SameNameMovedAgain ==
    /\ lastOp = "cursor"
    /\ fx = NoFx
    /\ currentSchemaName # <<>>
    /\ ResolveSchemaName(doc[cursorLine]) = currentSchemaName
    /\ storage.present
    /\ storage.name = currentSchemaName

\* the values X of the declarations _class = "X" a line contains
DeclaredNames(line) ==
    LET keys == {i \in 1..Len(line) : OccursAt(line, i, ClassKey)}
        quotes == {q \in 1..Len(line) : line[q] = Quote}
    IN  {SubSeq(line, t[2] + 1, t[3] - 1) :
            t \in {u \in keys \X quotes \X quotes :
                     /\ u[2] > u[1] + Len(ClassKey)
                     /\ u[3] > u[2] + 1
                     /\ \A k \in (u[2] + 1)..(u[3] - 1) : line[k] # Quote
                     /\ \E e \in (u[1] + Len(ClassKey))..(u[2] - 1) :
                            /\ line[e] = "="
                            /\ \A k \in ((u[1] + Len(ClassKey))..(u[2] - 1)) \ {e} :
                                   line[k] \in Whitespace}}

\* C9: step 1: after a cursor move onto a line that contains a declaration
\* _class = "X" the current name is X, also when another quoted string of
\* the line satisfies the allow-list.
DeclarationResolvesFirst ==
    (lastOp = "cursor" /\ DeclaredNames(doc[cursorLine]) # {}) =>
        currentSchemaName \in DeclaredNames(doc[cursorLine])

\* the line's first quoted string is allow-listed and is not the declaration
DeclarationBesideAllowListed ==
    /\ lastOp = "cursor"
    /\ DeclaredNames(doc[cursorLine]) = {currentSchemaName}
    /\ AllowListed(GenericMatch(doc[cursorLine]))
    /\ GenericMatch(doc[cursorLine]) # currentSchemaName

\* the quoted strings of a line: what stands between its 1st and 2nd quote,
\* its 3rd and 4th, and so on
QuotedStrings(line) ==
    LET quotes == {q \in 1..Len(line) : line[q] = Quote}
        Rank(q) == Cardinality({p \in quotes : p <= q})
    IN  {SubSeq(line, t[1] + 1, t[2] - 1) :
            t \in {u \in quotes \X quotes :
                     /\ Rank(u[1]) % 2 = 1
                     /\ Rank(u[2]) = Rank(u[1]) + 1}}

AllowListedStrings(line) == {s \in QuotedStrings(line) : s # <<>> /\ AllowListed(s)}

\* C10: step 2: after a cursor move onto a line without a declaration, the
\* current name is a quoted string of the line that satisfies the allow-list,
\* whichever position it has, if the line has one.
AnyAllowListedStringResolves ==
    (/\ lastOp = "cursor"
     /\ DeclaredNames(doc[cursorLine]) = {}
     /\ AllowListedStrings(doc[cursorLine]) # {}) =>
        currentSchemaName \in AllowListedStrings(doc[cursorLine])

\* C11: Scenario A: for the document {, _class = "Foo", } a rebuild gives
\* exactly the item [label "_class = Foo", shortLabel "Foo", line 2,
\* depth 0], and the folding provider gives exactly the range 1..3.
ScenarioAOutlineAndFold ==
    doc = ScenarioA =>
        /\ rebuilds >= 1 =>
               lastOutline =
                   << [label |-> <<"_", "c", "l", "a", "s", "s", " ", "=", " ",
                                   "F", "o", "o">>,
                       shortLabel |-> <<"F", "o", "o">>,
                       line |-> 2,
                       depth |-> 0] >>
        /\ lastOp = "fold" =>
               foldRanges = << [start |-> 1, end |-> 3, kind |-> "Region"] >>

\* Scenario A has been rebuilt and then folded
ScenarioARebuiltAndFolded ==
    /\ doc = ScenarioA
    /\ rebuilds = 1
    /\ lastOp = "fold"
    /\ Len(lastOutline) = 1
    /\ Len(foldRanges) = 1

\* braceLevel after the lines 1..l of a scan
RECURSIVE LevelAfterLine(_, _)
LevelAfterLine(lines, l) ==
    IF l = 0 THEN 0
    ELSE AdjustBraceLevel(lines[l], 1, Len(lines[l]),
                          LevelAfterLine(lines, l - 1))

\* braceLevel after the first c characters of line l of a scan
ScanLevel(lines, l, c) ==
    AdjustBraceLevel(lines[l], 1, c, LevelAfterLine(lines, l - 1))

\* the items with their lines moved down by n
ShiftItems(outline, n) ==
    [k \in 1..Len(outline) |-> [outline[k] EXCEPT !.line = @ + n]]

\* C12: braceLevel is never negative at any point of a scan, a closing
\* bracket met at level 0 leaves it 0, and after an unmatched closing brace
\* on line 1 the outline is the one of the document without that line (its
\* lines one further down) and no fold range touches line 1.
DepthFlooredAtZero ==
    /\ \A l \in 1..Len(doc) : \A c \in 0..Len(doc[l]) :
           /\ ScanLevel(doc, l, c) >= 0
           /\ (c >= 1 /\ doc[l][c] \in CloseBrackets
                      /\ ScanLevel(doc, l, c - 1) = 0) =>
                  ScanLevel(doc, l, c) = 0
    /\ (rebuilds >= 1 /\ doc[1] = <<"}">>) =>
           lastOutline = ShiftItems(OutlineOf(Tail(doc)), 1)
    /\ (lastOp = "fold" /\ doc[1] = <<"}">>) =>
           \A k \in 1..Len(foldRanges) :
               foldRanges[k].start # 1 /\ foldRanges[k].end # 1

\* after an unmatched closing brace a key below one opening brace has got
\* depth 1, and the fold of the document has given no range
UnmatchedCloserForgotten ==
    /\ doc = << <<"}">>, <<"{">>, <<"b", " ", "=", " ", "1">> >>
    /\ rebuilds = 1
    /\ lastOp = "fold"
    /\ foldRanges = <<>>
    /\ Len(lastOutline) = 1
    /\ lastOutline[1].depth = 1

\* the line has no character of S
HasNone(line, S) == \A c \in 1..Len(line) : line[c] \notin S

\* the number of characters of the lines that are in S
CountOf(lines, S) ==
    Cardinality(UNION {{<<l, c>> : c \in {k \in 1..Len(lines[l]) :
                                              lines[l][k] \in S}} :
                          l \in 1..Len(lines)})

\* the ranges with their lines moved down by n
ShiftRanges(ranges, n) ==
    [k \in 1..Len(ranges) |->
        [ranges[k] EXCEPT !.start = @ + n, !.end = @ + n]]

\* C13: unbalanced brackets give no fold ranges: when the first line closes
\* brackets and opens none, the ranges are those of the rest of the document
\* (the stack is empty after it); when the last line opens brackets and
\* closes none, the ranges are those of the document before it; and there
\* are never more ranges than opening or than closing brackets.
UnbalancedBracketsFoldNothing ==
    lastOp = "fold" =>
        /\ HasNone(doc[1], OpenBrackets) =>
               /\ FoldFrom(<<doc[1]>>, 1, [stack |-> <<>>, ranges |-> <<>>])
                      = [stack |-> <<>>, ranges |-> <<>>]
               /\ foldRanges = ShiftRanges(ProvideFoldingRanges(Tail(doc)), 1)
        /\ HasNone(doc[Len(doc)], CloseBrackets) =>
               foldRanges =
                   ProvideFoldingRanges(SubSeq(doc, 1, Len(doc) - 1))
        /\ Len(foldRanges) <= Min(CountOf(doc, OpenBrackets),
                                  CountOf(doc, CloseBrackets))

\* a closing brace that nothing opened, three opening brackets and two
\* closing ones: the two pairs fold, the brace and the third bracket do not
UnbalancedOnBothSides ==
    /\ lastOp = "fold"
    /\ doc = << <<"}">>, <<"a", " ", "=", " ", "[", "(", "<">>, <<")", ">">> >>
    /\ foldRanges = << [start |-> 2, end |-> 3, kind |-> "Region"],
                       [start |-> 2, end |-> 3, kind |-> "Region"] >>

\* the names the resolver derives from the lines of a document
NamesOf(lines) ==
    {ResolveSchemaName(lines[l]) : l \in 1..Len(lines)} \ {<<>>}

\* C14: after a file is opened or New file is chosen, the rebuild it
\* schedules leaves lastOutline, the two rendered lists, the highlight and
\* the current schema name derived from the new document only: the lists
\* are the outline's with nothing highlighted, and the schema name is none
\* or a name of the new document.
ReplacementRebuildsAllState ==
    [][(lastOp \in {"open", "new"} /\ lastOp' = "rebuild") =>
          /\ lastOutline' = OutlineOf(doc')
          /\ outlineList' = RenderOutline(lastOutline')
          /\ jumpList' = RenderJumpList(lastOutline')
          /\ currentSchemaName' \in NamesOf(doc') \cup {<<>>}]_vars

\* whether restoreLastSchemaFromLocal has a record to restore: the storage
\* can be read and holds an object with a name and a ts at most the horizon
\* old
Restorable ==
    /\ ~storageDenied
    /\ storage.present
    /\ storage.json
    /\ storage.name # <<>>
    /\ storage.ts # 0
    /\ DateNow - storage.ts <= SETTINGS_TTL_MS

\* C15: at the start of a session the stored record is restored as the
\* current schema name, and the documentation navigated to it, only if it
\* has a name and a timestamp and is at most 6 hours old, and the session
\* starts with no schema otherwise; restoring writes nothing: the record
\* changes only in a cursor move that changes the schema name.
StaleRecordIgnored ==
    /\ [](lastOp = "init" =>
             /\ currentSchemaName = (IF Restorable THEN storage.name ELSE <<>>)
             /\ docsIframeSrc =
                    (IF Restorable THEN SchemaUrl(storage.name) ELSE <<>>)
             /\ fx = NoFx)
    /\ [][storage' # storage =>
             (lastOp' = "cursor" /\ currentSchemaName' # currentSchemaName
                  /\ fx'.writes = 1)]_vars

\* a session has started on a record older than the horizon, with no schema
StartedOnStaleRecord ==
    /\ lastOp = "init"
    /\ ~storageDenied
    /\ storage.present
    /\ storage.name = FooVData
    /\ DateNow - storage.ts > SETTINGS_TTL_MS
    /\ currentSchemaName = <<>>
    /\ docsIframeSrc = <<>>

\* C16: a storage failure is absorbed: no exception leaves a handler; a
\* cursor move that goes on to write has set the current schema name and
\* navigated whether the write succeeded or not; and a session whose read
\* failed, or found text that is no JSON or an object without name or ts,
\* starts with no schema.
StorageFailureAbsorbed ==
    /\ uncaught = FALSE
    /\ (lastOp = "cursor" /\ fx.writes = 1) =>
           /\ currentSchemaName = ResolveSchemaName(doc[cursorLine])
           /\ docsIframeSrc = SchemaUrl(currentSchemaName)
           /\ fx.navs = 1
    /\ (/\ lastOp = "init"
        /\ \/ storageDenied
           \/ storage.present /\ ~storage.json
           \/ storage.present /\ (storage.name = <<>> \/ storage.ts = 0)) =>
           /\ currentSchemaName = <<>>
           /\ docsIframeSrc = <<>>

\* the storage is denied and holds text that is no JSON; a cursor move has
\* selected a schema although its write failed
WriteFailedAfterReadFailed ==
    /\ lastOp = "cursor"
    /\ fx.writes = 1
    /\ storageDenied
    /\ storage.present
    /\ ~storage.json
    /\ currentSchemaName # <<>>
    /\ docsIframeSrc = SchemaUrl(currentSchemaName)

\* C17: when the loader is not there the script logs a diagnostic and the
\* core never starts: in every state there is no editor, no handler has
\* run, no timeout is or was pending, no schema is restored and lastOutline
\* and the lists are empty.
HostUnavailableNeverStarts ==
    ~windowRequire =>
        /\ ~editor
        /\ consoleErrors = 1
        /\ lastOp = "abort"
        /\ timers = {}
        /\ outlineUpdateTimer = 0
        /\ edits = 0
        /\ rebuilds = 0
        /\ lastOutline = <<>>
        /\ outlineList = <<>>
        /\ jumpList = <<>>
        /\ currentSchemaName = <<>>
        /\ docsIframeSrc = <<>>
        /\ fx = NoFx

\* without the loader, time has passed over a record that a session would
\* have restored
AbortedBesideFreshRecord ==
    /\ ~windowRequire
    /\ sinceEdit > Delay
    /\ RestoreLastSchema(storage) = FooVData
    /\ ~storageDenied
    /\ currentSchemaName = <<>>

\* the 1-based indices of the outline's items of depth <= 1
JumpIndices(outline) == {i \in 1..Len(outline) : outline[i].depth <= 1}

\* the k-th of them in document order
NthJumpIndex(outline, k) ==
    CHOOSE i \in JumpIndices(outline) :
        Cardinality({j \in JumpIndices(outline) : j < i}) = k - 1

\* C18: once rebuilt, the outline list has one entry per item of
\* lastOutline in the same order, the jump list has one entry per item of
\* depth <= 1 in document order, and the click of an entry of either list
\* is bound to a jump to its item's line.
ListsMirrorOutline ==
    rebuilds >= 1 =>
        /\ Len(outlineList) = Len(lastOutline)
        /\ \A k \in 1..Len(outlineList) :
               /\ outlineList[k].text = lastOutline[k].label
               /\ outlineList[k].depth = lastOutline[k].depth
               /\ outlineList[k].index = k - 1
               /\ outlineList[k].jumpTo = lastOutline[k].line
        /\ Len(jumpList) = Cardinality(JumpIndices(lastOutline))
        /\ \A k \in 1..Len(jumpList) :
               LET item == lastOutline[NthJumpIndex(lastOutline, k)] IN
               /\ jumpList[k].text = item.shortLabel
               /\ jumpList[k].depth = item.depth
               /\ jumpList[k].index = k - 1
               /\ jumpList[k].jumpTo = item.line

\* a rebuild has left an item of depth 2 out of the jump list and kept the
\* item after it
DeepItemLeftOutOfJumpList ==
    /\ lastOp = "rebuild"
    /\ Len(lastOutline) = 2
    /\ lastOutline[1].depth = 2
    /\ lastOutline[2].depth = 1
    /\ Len(outlineList) = 2
    /\ Len(jumpList) = 1
    /\ jumpList[1].jumpTo = lastOutline[2].line

\* the entries of a list without their highlight
Unmarked(items) == [k \in 1..Len(items) |-> [items[k] EXCEPT !.active = FALSE]]

\* C19: a cursor move (a step that ends with the cursor handlers the last
\* to have run and is not the passing of time) leaves the document,
\* lastOutline, the entries of both lists and the pending timeout as they
\* are, and highlights the entry that lastOutline gives for the cursor line,
\* stale or not; a rebuild and a fold leave the document as it is.
CursorMoveLeavesOutlineAlone ==
    [][/\ (lastOp' = "cursor" /\ ~AdvanceTime) =>
             /\ UNCHANGED <<doc, lastOutline, timers, outlineUpdateTimer,
                            foldRanges, isDirty>>
             /\ Unmarked(outlineList') = Unmarked(outlineList)
             /\ Unmarked(jumpList') = Unmarked(jumpList)
             /\ lastOutline # <<>> =>
                    HighlightedIndices' =
                        {GreatestIndexAtOrAbove(lastOutline, cursorLine')}
                            \ {-1}
       /\ lastOp' \in {"rebuild", "fold"} => doc' = doc]_vars

\* the cursor has moved while a rebuild is pending, and an entry of the
\* stale outline is highlighted
CursorMovedOverStaleOutline ==
    /\ lastOp = "cursor"
    /\ timers # {}
    /\ lastOutline # <<>>
    /\ lastOutline # OutlineOf(doc)
    /\ HighlightedIndices = {0}
    /\ BestIndexFrom(OutlineOf(doc), 0, cursorLine, -1) # 0

\* C20: a cursor move onto a line that resolves no name leaves the current
\* schema name, the stored record and the documentation target as they
\* are; the current name never goes back to none, and it changes only to
\* the name resolved from the cursor line.
SchemaNameKept ==
    [][/\ (lastOp' = "cursor" /\ ResolveSchemaName(doc[cursorLine']) = <<>>) =>
             UNCHANGED <<currentSchemaName, storage, docsIframeSrc>>
       /\ currentSchemaName # <<>> => currentSchemaName' # <<>>
       /\ currentSchemaName' # currentSchemaName =>
             currentSchemaName' = ResolveSchemaName(doc'[cursorLine'])]_vars

\* a schema is selected and stored, and the cursor has moved onto a line
\* that resolves no name
MovedOffTheSchemaLine ==
    /\ lastOp = "cursor"
    /\ fx = NoFx
    /\ ResolveSchemaName(doc[cursorLine]) = <<>>
    /\ currentSchemaName # <<>>
    /\ storage.name = currentSchemaName
    /\ docsIframeSrc = SchemaUrl(currentSchemaName)

\* the brackets of the direction of a bracket
SameDirection(ch) ==
    IF ch \in OpenBrackets THEN OpenBrackets ELSE CloseBrackets

\* the documents got from one by replacing one bracket by a bracket of the
\* same direction
BracketVariants(lines) ==
    UNION {{[lines EXCEPT ![l][c] = ch] : ch \in SameDirection(lines[l][c])} :
              <<l, c>> \in {p \in UNION {{<<i, j>> : j \in 1..Len(lines[i])} :
                                             i \in 1..Len(lines)} :
                               lines[p[1]][p[2]] \in
                                   OpenBrackets \cup CloseBrackets}}

\* the lines and depths of the items of an outline
LinesAndDepths(outline) ==
    [k \in 1..Len(outline) |-> <<outline[k].line, outline[k].depth>>]

\* C21: the kind of a bracket is ignored by both scans: the document with
\* any one bracket replaced by another of the same direction has an outline
\* with the same lines and depths as the one just rebuilt, and the fold
\* ranges just computed.
BracketKindIgnored ==
    /\ lastOp = "rebuild" =>
           \A v \in BracketVariants(doc) :
               LinesAndDepths(OutlineOf(v)) = LinesAndDepths(lastOutline)
    /\ lastOp = "fold" =>
           \A v \in BracketVariants(doc) :
               ProvideFoldingRanges(v) = foldRanges

\* a round bracket has closed an angle bracket and an angle bracket a
\* round one, and both pairs fold
MismatchedKindsFolded ==
    /\ lastOp = "fold"
    /\ rebuilds = 1
    /\ doc = << <<"a", " ", "=", " ", "[", "(", "<">>, <<")", ">">> >>
    /\ Len(foldRanges) = 2

\* the items of lastOutline on line l
ItemsOnLine(l) ==
    {k \in 1..Len(lastOutline) : lastOutline[k].line = l}

\* C22: every declaration line has an outline item of depth 0 with label
\* "_class = <value>" and shortLabel "<value>", whatever the nesting at
\* that line.
DeclarationsAreTopLevel ==
    rebuilds >= 1 =>
        \A l \in 1..Len(doc) :
            DeclaredNames(doc[l]) # {} =>
                \E k \in ItemsOnLine(l) :
                    /\ lastOutline[k].depth = 0
                    /\ lastOutline[k].shortLabel \in DeclaredNames(doc[l])
                    /\ lastOutline[k].label =
                           <<"_", "c", "l", "a", "s", "s", " ", "=", " ">>
                               \o lastOutline[k].shortLabel

\* a declaration below three opening brackets has got depth 0
DeclarationThreeDeep ==
    /\ lastOp = "rebuild"
    /\ doc[1] = <<"a", " ", "=", " ", "[", "(", "<">>
    /\ Len(doc) >= 2
    /\ DeclaredNames(doc[2]) = {<<"F", "o", "o">>}
    /\ ScanLevel(doc, 2, 0) = 3
    /\ \E k \in ItemsOnLine(2) : lastOutline[k].depth = 0

\* the identifiers of the key pattern in a line: an identifier after
\* leading whitespace only, followed by whitespace and "="
KeyNames(line) ==
    {SubSeq(line, p[1], p[2]) :
        p \in {q \in (1..Len(line)) \X (1..Len(line)) :
                 /\ q[1] <= q[2]
                 /\ \A k \in 1..(q[1] - 1) : line[k] \in Whitespace
                 /\ line[q[1]] \in IdentStart
                 /\ \A k \in (q[1] + 1)..q[2] : line[k] \in IdentChars
                 /\ \E e \in (q[2] + 1)..Len(line) :
                        /\ line[e] = "="
                        /\ \A k \in (q[2] + 1)..(e - 1) :
                               line[k] \in Whitespace}}

\* C23: every key line (a line of the key pattern that holds no
\* declaration) has an outline item with label = shortLabel = identifier
\* and depth min(d, 2), d being the nesting after all characters of the
\* line.
KeyDepthCountsOwnLine ==
    rebuilds >= 1 =>
        \A l \in 1..Len(doc) :
            (DeclaredNames(doc[l]) = {} /\ KeyNames(doc[l]) # {}) =>
                \E k \in ItemsOnLine(l) :
                    /\ lastOutline[k].label \in KeyNames(doc[l])
                    /\ lastOutline[k].shortLabel = lastOutline[k].label
                    /\ lastOutline[k].depth =
                           (IF ScanLevel(doc, l, Len(doc[l])) < 2
                            THEN ScanLevel(doc, l, Len(doc[l])) ELSE 2)

\* a key line that closes the bracket around it has the depth outside, and
\* a top-level key line that opens three brackets has depth 2
KeyLinesWithOwnBrackets ==
    /\ lastOp = "rebuild"
    /\ doc = << <<"{">>, <<"e", " ", "=", " ", "}">>,
                <<"a", " ", "=", " ", "[", "(", "<">> >>
    /\ LinesAndDepths(lastOutline) = << <<2, 0>>, <<3, 2>> >>

\* C24: the classification is exclusive: a line has one outline item if it
\* holds a declaration or is of the key pattern and none otherwise, and
\* the item of a line that is both is the declaration's.
OneItemPerClassifiedLine ==
    rebuilds >= 1 =>
        \A l \in 1..Len(doc) :
            /\ Cardinality(ItemsOnLine(l)) =
                   (IF DeclaredNames(doc[l]) # {} \/ KeyNames(doc[l]) # {}
                    THEN 1 ELSE 0)
            /\ (DeclaredNames(doc[l]) # {} /\ KeyNames(doc[l]) # {}) =>
                   \A k \in ItemsOnLine(l) :
                       /\ lastOutline[k].shortLabel \in DeclaredNames(doc[l])
                       /\ lastOutline[k].shortLabel \notin KeyNames(doc[l])
                       /\ lastOutline[k].label # lastOutline[k].shortLabel

\* a line of both patterns, a line of the key pattern only and a line of
\* neither have been scanned
AllThreeClassesScanned ==
    /\ lastOp = "rebuild"
    /\ Len(doc) = 3
    /\ DeclaredNames(doc[1]) # {} /\ KeyNames(doc[1]) = {ClassKey}
    /\ DeclaredNames(doc[2]) = {} /\ KeyNames(doc[2]) # {}
    /\ DeclaredNames(doc[3]) = {} /\ KeyNames(doc[3]) = {}
    /\ LinesAndDepths(lastOutline) = << <<1, 0>>, <<2, 0>> >>

\* C26: in every state with a non-empty lastOutline, also right after a
\* rebuild has rendered the lists anew, the highlighted entry of the
\* outline list is the one of the greatest index whose line is at or above
\* the cursor line, and none when there is no such index.
HighlightFollowsCursorAlways ==
    lastOutline # <<>> =>
        HighlightedIndices =
            {GreatestIndexAtOrAbove(lastOutline, cursorLine)} \ {-1}

\* the 0-based indices of the highlighted entries of the jump list
HighlightedJumpIndices ==
    {k - 1 : k \in {n \in 1..Len(jumpList) : jumpList[n].active}}

\* the 0-based index in the jump list of the outline's item of 0-based
\* index i, which has depth <= 1
JumpIndexOf(outline, i) ==
    Cardinality({j \in JumpIndices(outline) : j < i + 1})

\* C27: after a cursor move the highlighted entries of the jump list are
\* the entry of the active outline item when it has depth <= 1, and none
\* when there is no active item or it has depth 2.
JumpHighlightIsActiveItem ==
    (lastOp = "cursor" /\ lastOutline # <<>>) =>
        LET i == GreatestIndexAtOrAbove(lastOutline, cursorLine) IN
        HighlightedJumpIndices =
            (IF i = -1 THEN {}
             ELSE IF lastOutline[i + 1].depth > 1 THEN {}
             ELSE {JumpIndexOf(lastOutline, i)})

\* C28: when lastOutline is the outline of the document, a click on the
\* entry of index i of the outline list puts the cursor on line
\* lastOutline[i].line, and the cursor handler it raises highlights exactly
\* the entry of index i.
JumpTrackRoundTrip ==
    [][\A k \in 1..Len(outlineList), storageOk \in SetItemOutcomes :
          (/\ lastOp' = "cursor"
           /\ OutlineItemClicked(outlineList[k], storageOk)
           /\ lastOutline = OutlineOf(doc))
          => /\ cursorLine' = lastOutline[k].line
             /\ HighlightedIndices' = {k - 1}
             /\ BestIndex(lastOutline', cursorLine') = k - 1]_vars

\* the cursor is on the line of the second of two items, which is not the
\* line numbered like it, and that item's entry is the highlighted one
JumpedToSecondItem ==
    /\ lastOp = "cursor"
    /\ Len(lastOutline) = 2
    /\ lastOutline = OutlineOf(doc)
    /\ lastOutline[1].line > 1
    /\ cursorLine = lastOutline[2].line
    /\ HighlightedIndices = {1}

\* the folding resolver's bracket stack after the first c characters of
\* line l
FoldStackAfter(lines, l, c) ==
    FoldLine(lines[l], 1, c, l,
             FoldFrom(SubSeq(lines, 1, l - 1), 1,
                      [stack |-> <<>>, ranges |-> <<>>])).stack

\* C29: after every character of every document, buildOutline's
\* braceLevel equals the number of entries on the folding resolver's
\* bracket stack, unmatched brackets included.
ScansAgreeOnNesting ==
    \A l \in 1..Len(doc) : \A c \in 0..Len(doc[l]) :
        ScanLevel(doc, l, c) = Len(FoldStackAfter(doc, l, c))

\* both scans were run on a document with an unmatched closing bracket, a
\* line that opens three and a line that closes two: one is left open
UnmatchedBracketsScannedTwice ==
    /\ lastOp = "fold"
    /\ rebuilds > 0
    /\ doc = <<<<"}">>, <<"a", " ", "=", " ", "[", "(", "<">>, <<")", ">">>>>
    /\ ScanLevel(doc, 1, 1) = 0
    /\ ScanLevel(doc, 2, Len(doc[2])) = 3
    /\ Len(FoldStackAfter(doc, 3, Len(doc[3]))) = 1

\* C25: once the editor exists, in every state with no rebuild timeout
\* pending lastOutline is the outline of the document's current text.
OutlineCurrentWhenIdle ==
    (editor /\ timers = {}) => lastOutline = OutlineOf(doc)

\* a file was read into the editor and the rebuild it scheduled has run
FileOutlinedAndIdle ==
    /\ timers = {}
    /\ lastOp = "rebuild"
    /\ currentFileName = "foo.vdata"
    /\ doc = SetValue(GetValue(ScenarioA))
    /\ doc # DefaultDoc
    /\ lastOutline # <<>>
    /\ lastOutline = OutlineOf(doc)

\* C30: in every state with no read in flight, after a read has put a
\* file's content into the editor currentFileName is that file's name, and
\* after New file has put its content there it is "untitled.vdata".
NameMatchesContent ==
    reads = {} =>
        /\ lastOp = "open" =>
               \E f \in UserFiles :
                   /\ doc = SetValue(f.text)
                   /\ currentFileName = FileNameOr(f.name)
        /\ lastOp = "new" =>
               /\ doc = SetValue(GetValue(NewFileDoc))
               /\ currentFileName = UntitledName

====
